---------------------------- MODULE Spec2Model ----------------------------
(***************************************************************************)
(* Hunt dispatcher of flows/hunts.go: the in-memory mirror of the hunt     *)
(* table (HuntDispatcherContainer), its refresh cycle (NewHuntDispatcher   *)
(* and Update), the rate-limited scheduler (_ScheduleClientsForHunt), the  *)
(* result triage (_SortResultsForHunt), the hunt API (CreateHunt,          *)
(* ModifyHunt, ListHunts) and the delegate wrapper (HuntRunnerFlow).       *)
(*                                                                         *)
(* Times are microseconds since the epoch, as in the source.  Client ids   *)
(* are 1..NumClients; 0 is the empty ClientId of a zero HuntInfo.  Hunt    *)
(* ids are 1 and 2.  A store queue <HuntId>/<queue> is the set of the     *)
(* HuntInfo objects under it, one per ClientId (the last path component).  *)
(***************************************************************************)
EXTENDS Integers, Sequences, FiniteSets, TLC

\* ------------------------------------------------------------- bounds
NumClients == 2
MaxHalfSeconds == 6
MaxResults == 1
MaxTotal == 3
MaxOffset == 4
MaxCount == 3

\* ---------------------------------------------------- program constants
DefaultClientRate == 20
MicrosPerSecond == 1000000
SecondsPerMinute == 60
TriagePage == 100

HalfSecond == MicrosPerSecond \div 2
StartTime == MicrosPerSecond

Clients == 1..NumClients
Keys == 0..NumClients
HuntIds == {1, 2}
QueueNames == {"pending", "running", "completed", "results", "errors", "no_results"}
HuntStates == {"UNSET", "PAUSED", "RUNNING", "STOPPED", "ARCHIVED"}
ClientRates == {0, 60}

\* ------------------------------------------------------------ objects
\* flows_proto.FlowContext as it is stored in HuntInfo.Result; isnil is a
\* nil pointer.
NilResult == [isnil |-> TRUE, State |-> "UNSET", TotalResults |-> 0]

FlowContext(state, total) == [isnil |-> FALSE, State |-> state, TotalResults |-> total]

\* &api_proto.HuntInfo{}
EmptyHuntInfo == [ClientId |-> 0, FlowId |-> 0, State |-> "UNSET", Result |-> NilResult]

\* The HuntInfo the foreman puts under <HuntId>/pending/<ClientId>.
PendingInfo(c) == [EmptyHuntInfo EXCEPT !.ClientId = c]

\* ------------------------------------------------------ the data store
\* db.SetSubject on a queue path: one object per last path component.
Put(q, info) == {x \in q : x.ClientId # info.ClientId} \cup {info}

\* db.DeleteSubject on a queue path.
Del(q, k) == {x \in q : x.ClientId # k}

QKeys(q) == {x.ClientId : x \in q}

Obj(q, k) == CHOOSE x \in q : x.ClientId = k

\* db.GetSubject(urn, summary) on a queue path, summary being a fresh
\* HuntInfo: the object stored there; when nothing is stored there the
\* summary stays empty and no error is returned.
GetSubject(q, k) == IF k \in QKeys(q) THEN Obj(q, k) ELSE EmptyHuntInfo

RECURSIVE SortedSeq(_)
SortedSeq(S) ==
    IF S = {} THEN <<>>
    ELSE LET m == CHOOSE x \in S : \A y \in S : x <= y
         IN <<m>> \o SortedSeq(S \ {m})

Min(a, b) == IF a < b THEN a ELSE b

\* db.ListChildren(path, offset, limit): the keys under the path in the
\* store's listing order, from offset, at most limit of them.
ListChildren(q, offset, limit) ==
    LET all == SortedSeq(QKeys(q))
    IN SubSeq(all, offset + 1, Min(Len(all), offset + limit))

SeqToSet(s) == {s[i] : i \in 1..Len(s)}

\* The hunt object stored under its HuntId.
HasHunt(st, id) == \E h \in st : h.HuntId = id

HuntObj(st, id) == CHOOSE h \in st : h.HuntId = id

PutHunt(st, h) == {x \in st : x.HuntId # h.HuntId} \cup {h}


\* ---------------------------------------------------------- counters
\* The counters of a hunt are uint64: += 1 wraps at 2^64, far above
\* MaxCounter, the highest value the triage loop is followed to.
MaxCounter == 16

Inc(x) == x + 1

\* Whether the triage counters of a hunt are below the highest value
\* followed.
CounterRoom(hunt) ==
    /\ hunt.TotalClientsWithErrors < MaxCounter
    /\ hunt.TotalClientsWithResults < MaxCounter
    /\ hunt.TotalClientsWithoutResults < MaxCounter

\* ------------------------------------------------------------ faults
\* What the store and the launch RPC do in one step: list fails, and the
\* keys whose read, write, delete or launch fails.
NoFault == [list |-> FALSE, read |-> {}, write |-> {}, del |-> {}, launch |-> {},
            load |-> FALSE, persist |-> FALSE]

\* ------------------------------------------------- _ScheduleClientsForHunt
ClientRateOf(hunt) ==
    IF hunt.ClientRate = 0 THEN DefaultClientRate ELSE hunt.ClientRate

LastUnpauseOf(hunt) ==
    IF hunt.LastUnpauseTime = 0 THEN hunt.CreateTime ELSE hunt.LastUnpauseTime

SecondsSinceUnpause(hunt, t) == (t - LastUnpauseOf(hunt)) \div MicrosPerSecond

ExpectedClients(hunt, t) ==
    (ClientRateOf(hunt) * SecondsSinceUnpause(hunt, t)) \div SecondsPerMinute
        + hunt.TotalClientsWhenUnpaused

ClientsToGet(hunt, t) == ExpectedClients(hunt, t) - hunt.TotalClientsScheduled

\* The flow LaunchFlow creates for a client: the HuntRunnerFlow wrapper and
\* its delegate, both running.
NoFlow == [launches |-> 0, Wrapper |-> "NONE", State |-> "NONE", TotalResults |-> 0,
           delegate_err |-> FALSE, errs |-> 0]

LaunchFlow(fl) ==
    [launches |-> fl.launches + 1, Wrapper |-> "RUNNING", State |-> "RUNNING",
     TotalResults |-> 0, delegate_err |-> FALSE, errs |-> 0]

\* Mutant of LaunchFailed: the entry is put into running and counted as
\* scheduled.
LaunchFailedScheduled(acc, summary, f) ==
    [acc EXCEPT
       !.hunt.TotalClientsScheduled = Inc(@),
       !.modified = TRUE,
       !.qs.running = IF summary.ClientId \in f.write THEN @ ELSE Put(@, summary)]

\* The branch of the loop for a LaunchFlow that returned an error: the
\* summary goes to errors with State ERROR and the hunt counts an error.
LaunchFailed(acc, summary, f) ==
    LET failed == [summary EXCEPT !.State = "ERROR",
                                  !.Result = FlowContext("UNSET", 0)]
    IN [acc EXCEPT
          !.hunt.TotalClientsWithErrors = Inc(@),
          !.modified = TRUE,
          !.qs.errors = IF summary.ClientId \in f.write THEN @ ELSE Put(@, failed)]

\* The rest of the loop body for a LaunchFlow that answered with a flow:
\* the summary goes to running with the flow's id and the hunt counts the
\* client as scheduled.
LaunchDone(acc, summary, f) ==
    LET started == [summary EXCEPT !.FlowId = 1]
    IN [acc EXCEPT
          !.hunt.TotalClientsScheduled = Inc(@),
          !.modified = TRUE,
          !.qs.running = IF summary.ClientId \in f.write THEN @ ELSE Put(@, started)]

\* What a goroutine holds between LaunchFlow's answer and the write of the
\* summary: the summary it read from pending and whether the RPC failed.
NoResponse == [pending |-> FALSE, summary |-> EmptyHuntInfo, failed |-> FALSE]

Response(summary, failed) == [pending |-> TRUE, summary |-> summary, failed |-> failed]

\* The deferred removal of the pulled urns from a queue.
DeleteUrns(q, urns, f) == {x \in q : x.ClientId \notin (SeqToSet(urns) \ f.del)}

\* Whether the scheduler has clients to add to the hunt at time t.
ClientsDue(hunt, t) == hunt.TotalClientsScheduled < ExpectedClients(hunt, t)

\* Mutant of ScheduleLimit: a whole page, as the triage lists, whatever the
\* deficit.
ScheduleLimitPage(hunt, t) == TriagePage

\* How many entries the scheduler lists from pending.
ScheduleLimit(hunt, t) == ClientsToGet(hunt, t)

\* ------------------------------------------------------ _SortResultsForHunt
\* The destination queue of a completed entry: derr is the read error.
Destination(derr, summary) ==
    IF derr \/ summary.Result.isnil \/ summary.Result.State = "ERROR" THEN "errors"
    ELSE IF summary.Result.TotalResults > 0 THEN "results"
    ELSE "no_results"

\* The counter incremented for a destination.
CountIn(hunt, dest) ==
    CASE dest = "errors" ->
           [hunt EXCEPT !.TotalClientsWithErrors = Inc(@)]
      [] dest = "results" ->
           [hunt EXCEPT !.TotalClientsWithResults = Inc(@)]
      [] dest = "no_results" ->
           [hunt EXCEPT !.TotalClientsWithoutResults = Inc(@)]

\* The body of the loop over the listed urns, for urns[i..].
RECURSIVE SortLoop(_, _, _, _)
SortLoop(urns, i, acc, f) ==
    IF i > Len(urns) THEN acc
    ELSE LET k == urns[i]
             derr == k \in f.read
             summary == IF derr THEN EmptyHuntInfo ELSE GetSubject(acc.qs.completed, k)
             dest == Destination(derr, summary)
             err1 == IF dest = "errors"
                     THEN (IF derr THEN "read" ELSE "nil")
                     ELSE acc.err
             wfail == summary.ClientId \in f.write
         IN SortLoop(urns, i + 1,
              [hunt |-> CountIn(acc.hunt, dest),
               qs |-> IF wfail THEN acc.qs
                      ELSE [acc.qs EXCEPT ![dest] = Put(@, summary)],
               modified |-> TRUE,
               result_count |-> acc.result_count + 1,
               err |-> IF wfail THEN "write" ELSE err1,
               sorted |-> Append(acc.sorted, <<k, dest>>)],
              f)


\* ------------------------------------------------------------- hunts
\* The hunt object CreateHunt stores for a draft with the given State and
\* ClientRate, under the id drawn, at time t.
NewHunt(id, state, rate, t) ==
    [HuntId |-> id,
     State |-> IF state = "UNSET" THEN "PAUSED" ELSE state,
     ClientRate |-> rate,
     CreateTime |-> t,
     LastUnpauseTime |-> t,
     TotalClientsWhenUnpaused |-> 0,
     TotalClientsScheduled |-> 0,
     TotalClientsWithResults |-> 0,
     TotalClientsWithErrors |-> 0,
     TotalClientsWithoutResults |-> 0]

\* The hunt object ModifyHunt stores: hunt_obj as read, with the requested
\* state.  The unpause test reads hunt_obj.State after it was assigned the
\* requested state.
ModifiedHunt(hunt_obj, state, t) ==
    LET assigned == [hunt_obj EXCEPT !.State = state]
    IN IF assigned.State = "PAUSED" /\ state = "RUNNING"
       THEN [assigned EXCEPT !.LastUnpauseTime = t,
                             !.TotalClientsWhenUnpaused = assigned.TotalClientsScheduled]
       ELSE assigned

\* HuntDispatcher.GetApplicableHunts(last_timestamp) over a hunt list.
GetApplicableHunts(hunts, last_timestamp) ==
    SelectSeq(hunts, LAMBDA h : h.CreateTime > last_timestamp)

\* The items ListHunts returns from a dispatcher for (Offset, Count).
ListHuntsItems(hunts, offset, count) ==
    LET app == GetApplicableHunts(hunts, 0)
    IN SubSeq(app, offset + 1, Min(Len(app), offset + count))

\* The hunt list NewHuntDispatcher loads: the first page of the hunts.
RECURSIVE LoadHunts(_, _)
LoadHunts(st, ids) ==
    IF Len(ids) = 0 THEN <<>>
    ELSE <<HuntObj(st, Head(ids))>> \o LoadHunts(st, Tail(ids))

HuntsPage == 100

ListHuntIds(st) ==
    LET all == SortedSeq({h.HuntId : h \in st})
    IN SubSeq(all, 1, Min(Len(all), HuntsPage))


\* -------------------------------------------------------------- state
ApiProcs == {"a1", "a2"}
Procs == {"bg"} \cup ApiProcs

RefreshInterval == 10 * MicrosPerSecond
MaxSleeps == 1
MaxFaults == 1
MaxHandlerErrors == 2

VARIABLES
    now,          \* time.Now(), microseconds
    store,        \* the hunt objects of the data store
    queues,       \* queues[h][q]: the HuntInfo objects under <h>/<q>
    flows,        \* flows[h][c]: the hunt flow launched for client c (0: the
                  \* empty ClientId)
    refresh_mu,   \* dispatch_container.refresh_mu: its holder or "free"
    mu,           \* dispatch_container.mu: its holder or "free"
    dispatcher,   \* dispatch_container.dispatcher
    pc,           \* where each goroutine is
    disp,         \* disp[p]: the hunts of the dispatcher p is building
    cur,          \* cur[p]: the index of Update's loop over the hunts
    modified,     \* modified[p]: Update's modified flag for the hunt
    err,          \* err[p]: the err of the call p is in, the error it
                  \* returned to Update once it is over
    urns,         \* urns[p]: the urns the call p is in has listed
    idx,          \* idx[p]: the index of the call's loop over urns[p]
    response,     \* response[p]: the summary p read and what LaunchFlow
                  \* answered, until p has stored the summary
    op,           \* op[p]: the API call p is in, with its locals
    ret,          \* ret[p]: what p's last API call returned
    wake,         \* when the background goroutine's Sleep ends
    nfaults,      \* how many steps met a store or launch failure
    readonly,     \* the keys of completed the store refuses to delete, on
                  \* every call
    fault,        \* history: the failure the last step that could fail met
    counted,      \* history: counted[h], the completed keys triage counted
                  \* since they were last written
    unpaused,     \* history: unpaused[h], the last PAUSED -> RUNNING request
    paused_ever,  \* history: the hunts that were ever stored PAUSED
    promoted      \* history: promoted[p], the clients the scheduler step of
                  \* p's Update put into running for the hunt it works on

vars == <<now, store, queues, flows, refresh_mu, mu, dispatcher, pc, disp, cur,
          modified, err, urns, idx, response, op, ret, wake, nfaults, readonly, fault,
          counted,
          unpaused,
          paused_ever, promoted>>

locks == <<refresh_mu, mu>>
world == <<store, queues, flows>>
locals == <<disp, cur, modified, err, urns, idx, response>>
history == <<counted, unpaused, paused_ever, promoted>>
faults == <<nfaults, readonly, fault>>

NilDispatcher == [nil |-> TRUE, hunts |-> <<>>]
Dispatcher(hunts) == [nil |-> FALSE, hunts |-> hunts]

NoOp == [name |-> "none", HuntId |-> 0, State |-> "UNSET", obj |-> <<>>]
NoRet == [op |-> "none", err |-> "nil", items |-> <<>>]
NoUnpause == [at |-> 0, sched |-> 0]

Init ==
    /\ now = StartTime
    /\ store = {}
    /\ queues = [h \in HuntIds |-> [q \in QueueNames |-> {}]]
    /\ flows = [h \in HuntIds |-> [c \in Keys |-> NoFlow]]
    /\ refresh_mu = "free"
    /\ mu = "free"
    /\ dispatcher = NilDispatcher
    /\ pc = [p \in Procs |-> IF p = "bg" THEN "off" ELSE "idle"]
    /\ disp = [p \in Procs |-> <<>>]
    /\ cur = [p \in Procs |-> 0]
    /\ modified = [p \in Procs |-> FALSE]
    /\ err = [p \in Procs |-> "nil"]
    /\ urns = [p \in Procs |-> <<>>]
    /\ idx = [p \in Procs |-> 0]
    /\ response = [p \in Procs |-> NoResponse]
    /\ op = [p \in Procs |-> NoOp]
    /\ ret = [p \in Procs |-> NoRet]
    /\ wake = 0
    /\ nfaults = 0
    /\ readonly = {}
    /\ fault = NoFault
    /\ counted = [h \in HuntIds |-> {}]
    /\ unpaused = [h \in HuntIds |-> NoUnpause]
    /\ paused_ever = {}
    /\ promoted = [p \in Procs |-> {}]

\* A step that meets the failure f uses up one of the failures the store
\* and the launch RPC are allowed.
Fault(f) ==
    /\ f # NoFault => nfaults < MaxFaults
    /\ nfaults' = IF f = NoFault THEN nfaults ELSE nfaults + 1
    /\ fault' = f
    /\ UNCHANGED readonly

\* A step that deletes k from completed: the delete fails by the failure f
\* or because the store refuses to delete k at all.
DeleteFault(f, k) ==
    /\ f # NoFault => nfaults < MaxFaults /\ k \notin readonly
    /\ nfaults' = IF f = NoFault THEN nfaults ELSE nfaults + 1
    /\ fault' = IF k \in readonly THEN [NoFault EXCEPT !.del = {k}] ELSE f
    /\ UNCHANGED readonly

\* ------------------------------------------------------- environment
Elapsed == now - StartTime

\* Time passes by half a second.
TickHalf ==
    /\ Elapsed % RefreshInterval < MaxHalfSeconds * HalfSecond
    /\ now' = now + HalfSecond
    /\ UNCHANGED <<world, locks, dispatcher, pc, locals, op, ret, wake, faults, history>>

\* Time passes by a whole refresh interval.
TickInterval ==
    /\ Elapsed \div RefreshInterval < MaxSleeps
    /\ now' = now + RefreshInterval
    /\ UNCHANGED <<world, locks, dispatcher, pc, locals, op, ret, wake, faults, history>>

InSomeQueue(h, c) == \E q \in QueueNames : c \in QKeys(queues[h][q])

\* The foreman puts a client it has not yet given the hunt to under
\* <h>/pending.
ForemanEnqueue(h, c) ==
    /\ HasHunt(store, h)
    /\ ~InSomeQueue(h, c)
    /\ flows[h][c] = NoFlow
    /\ queues' = [queues EXCEPT ![h].pending = Put(@, PendingInfo(c))]
    /\ UNCHANGED <<now, store, flows, locks, dispatcher, pc, locals, op, ret, wake,
                   faults, history>>


\* ------------------------------------------- HuntRunnerFlow.ProcessMessage
FlowStates == {"RUNNING", "TERMINATED", "ERROR"}

\* The HuntInfo ProcessMessage writes under <h>/completed/<c>.
CompletedInfo(c, state, total) ==
    [ClientId |-> c, FlowId |-> 1, State |-> "UNSET",
     Result |-> FlowContext(state, total)]

\* The write decided on the delegate's state alone.
DelegateDoneState(delegate_err, state) == state # "RUNNING"

\* Whether ProcessMessage writes the outcome: the delegate failed or is no
\* longer running.
DelegateDone(delegate_err, state) == delegate_err \/ state # "RUNNING"

\* A message for the hunt flow of client c: the delegate handles it, ending
\* in the given state with the given TotalResults and error; wfail is the
\* failure of the write to completed.  The handler of one flow returns an
\* error at most MaxHandlerErrors times.
ProcessMessage(h, c, state, total, delegate_err, wfail) ==
    /\ flows[h][c].Wrapper = "RUNNING"
    /\ delegate_err => flows[h][c].errs < MaxHandlerErrors
    /\ total >= flows[h][c].TotalResults
    /\ Fault(IF wfail THEN [NoFault EXCEPT !.write = {c}] ELSE NoFault)
    /\ wfail => DelegateDone(delegate_err, state)
    /\ IF DelegateDone(delegate_err, state) /\ ~wfail
       THEN /\ queues' = [queues EXCEPT
                            ![h].completed = Put(@, CompletedInfo(c, state, total))]
            /\ flows' = [flows EXCEPT ![h][c].State = state,
                                      ![h][c].TotalResults = total,
                                      ![h][c].delegate_err = delegate_err,
                                      ![h][c].errs = IF delegate_err THEN @ + 1 ELSE @,
                                      ![h][c].Wrapper = state]
            /\ counted' = [counted EXCEPT ![h] = @ \ {c}]
       ELSE /\ flows' = [flows EXCEPT ![h][c].State = state,
                                      ![h][c].TotalResults = total,
                                      ![h][c].delegate_err = delegate_err,
                                      ![h][c].errs = IF delegate_err THEN @ + 1 ELSE @]
            /\ UNCHANGED <<queues, counted>>
    /\ UNCHANGED <<now, store, locks, dispatcher, pc, locals, op, ret, wake, unpaused,
                   paused_ever, promoted>>

\* ---------------------------------------------------- the refresh cycle
\* Whether p builds inside GetHuntDispatcher (under mu) and not in Refresh.
FirstBuild(p) == mu = p

\* Where Update's loop goes with the index i over the hunts hs.
AfterHunt(p, hs, i) ==
    IF i <= Len(hs) THEN "update"
    ELSE IF FirstBuild(p) THEN "g_set" ELSE "publish"

\* Mutant of RefreshLock: Refresh takes the publish lock mu as well before
\* it builds.
RefreshLockPublish(p) ==
    /\ pc[p] = "rlock"
    /\ refresh_mu = "free"
    /\ mu = "free"
    /\ refresh_mu' = p
    /\ mu' = p
    /\ pc' = [pc EXCEPT ![p] = "build"]
    /\ UNCHANGED <<now, world, dispatcher, locals, op, ret, wake, faults, history>>

\* Refresh: refresh_mu.Lock().
RefreshLock(p) ==
    /\ pc[p] = "rlock"
    /\ refresh_mu = "free"
    /\ refresh_mu' = p
    /\ pc' = [pc EXCEPT ![p] = "build"]
    /\ UNCHANGED <<now, world, mu, dispatcher, locals, op, ret, wake, faults, history>>

\* What the call o returns when it fails with the error e: "store" is an
\* error of the data store, passed on as it is.
Failed(o, e) ==
    [op |-> o.name, err |-> e, items |-> <<>>]

\* What a successful CreateHunt or ModifyHunt returns.
Done(o) ==
    [op |-> o.name, err |-> "nil", items |-> <<>>]

\* What ListHunts (Offset 0, Count 100) or GetHunt returns from the hunts
\* of the dispatcher it was given.
ListCount == 100

Answer(o, hunts) ==
    IF o.name = "ListHunts"
    THEN [op |-> o.name, err |-> "nil", items |-> ListHuntsItems(hunts, 0, ListCount)]
    ELSE LET found == SelectSeq(GetApplicableHunts(hunts, 0),
                                LAMBDA h : h.HuntId = o.HuntId)
         IN [op |-> o.name, err |-> IF Len(found) > 0 THEN "nil" ELSE "Not found",
             items |-> SubSeq(found, 1, Min(1, Len(found)))]

\* Mutant of FirstBuildError: the error is kept back and the caller is
\* answered from an empty dispatcher.
FirstBuildErrorHidden(o) == Answer(o, <<>>)

\* What GetHuntDispatcher's caller returns when the first build fails: the
\* error of the store.
FirstBuildError(o) == Failed(o, "store")

\* Mutant of OnBuildError: the hunts of the dispatcher before are kept.
OnBuildErrorKeep(previous) == previous

\* What Refresh publishes when NewHuntDispatcher fails: the hunts of
\* &HuntDispatcher{}, whatever the hunts of the dispatcher before.
OnBuildError(previous) == <<>>

\* NewHuntDispatcher up to the call of Update: list the hunts and load each.
\* In Refresh a failure leaves the empty dispatcher to publish, err[p]
\* being Refresh's err until then; in GetHuntDispatcher it is returned to
\* the caller.
Build(p, f) ==
    /\ pc[p] = "build"
    /\ Fault(f)
    /\ IF f.list \/ (f.load /\ store # {})
       THEN IF FirstBuild(p)
            THEN /\ mu' = "free"
                 /\ pc' = [pc EXCEPT ![p] = "idle"]
                 /\ ret' = [ret EXCEPT ![p] = FirstBuildError(op[p])]
                 /\ op' = [op EXCEPT ![p] = NoOp]
                 /\ UNCHANGED <<disp, cur, err>>
            ELSE /\ disp' = [disp EXCEPT ![p] = OnBuildError(dispatcher.hunts)]
                 /\ cur' = [cur EXCEPT ![p] = 0]
                 /\ err' = [err EXCEPT ![p] = "build"]
                 /\ pc' = [pc EXCEPT ![p] = "publish"]
                 /\ UNCHANGED <<mu, ret, op>>
       ELSE LET hs == LoadHunts(store, ListHuntIds(store))
            IN /\ disp' = [disp EXCEPT ![p] = hs]
               /\ cur' = [cur EXCEPT ![p] = 1]
               /\ pc' = [pc EXCEPT ![p] = AfterHunt(p, hs, 1)]
               /\ UNCHANGED <<mu, ret, op, err>>
    /\ UNCHANGED <<now, world, refresh_mu, dispatcher, modified, urns, idx, response, wake,
                   history>>

\* Mutant of UpdateSkips: only a PAUSED hunt is skipped.
UpdateSkipsPaused(hunt) == hunt.State = "PAUSED"

\* Whether Update passes over a hunt: any but a RUNNING one.
UpdateSkips(hunt) == hunt.State # "RUNNING"

\* The failures a step can meet: a step that lists meets the failure of the
\* listing, a step of a loop over urns the failure of a read, a write or a
\* launch for the urn (or the client) it works on, a step of a deferred
\* removal the failure of the delete of its urn.
ListFaultOnly(f) == [f EXCEPT !.list = FALSE] = NoFault

EntryFaultOnly(f, ks) ==
    /\ [f EXCEPT !.read = {}, !.write = {}, !.launch = {}] = NoFault
    /\ (f.read \cup f.write \cup f.launch) \subseteq ks

DeleteFaultOnly(f, k) ==
    /\ [f EXCEPT !.del = {}] = NoFault
    /\ f.del \subseteq {k}

\* Update's loop for the hunt at cur[p]: skip it unless it is RUNNING, else
\* enter _ScheduleClientsForHunt: when clients are due, list that many urns
\* from pending.
UpdateStep(p, f) ==
    /\ pc[p] = "update"
    /\ LET hunt == disp[p][cur[p]]
           h == hunt.HuntId
           listed == ListChildren(queues[h].pending, 0, ScheduleLimit(hunt, now))
       IN IF UpdateSkips(hunt)
          THEN /\ f = NoFault
               /\ cur' = [cur EXCEPT ![p] = @ + 1]
               /\ pc' = [pc EXCEPT ![p] = AfterHunt(p, disp[p], cur[p] + 1)]
               /\ UNCHANGED <<modified, err, urns, idx, response, faults, promoted>>
          ELSE /\ IF ClientsDue(hunt, now) THEN ListFaultOnly(f) ELSE f = NoFault
               /\ Fault(f)
               /\ modified' = [modified EXCEPT ![p] = FALSE]
               /\ err' = [err EXCEPT ![p] = IF f.list THEN "list" ELSE "nil"]
               /\ promoted' = [promoted EXCEPT ![p] = {}]
               /\ IF ClientsDue(hunt, now) /\ ~f.list /\ Len(listed) > 0
                  THEN /\ urns' = [urns EXCEPT ![p] = listed]
                       /\ idx' = [idx EXCEPT ![p] = 1]
                       /\ pc' = [pc EXCEPT ![p] = "read"]
                  ELSE /\ pc' = [pc EXCEPT ![p] = "triage"]
                       /\ UNCHANGED <<urns, idx>>
               /\ UNCHANGED <<cur, response>>
    /\ UNCHANGED <<now, world, locks, dispatcher, disp, op, ret, wake, counted, unpaused,
                   paused_ever>>

\* Where the scheduler's loop goes after the turn at idx[p]: the next urn,
\* or the deferred removal from its first urn.
NextTurn(p) ==
    IF idx[p] < Len(urns[p])
    THEN /\ idx' = [idx EXCEPT ![p] = @ + 1]
         /\ pc' = [pc EXCEPT ![p] = "read"]
    ELSE /\ idx' = [idx EXCEPT ![p] = 1]
         /\ pc' = [pc EXCEPT ![p] = "unpend"]

\* A turn of _ScheduleClientsForHunt's loop over the listed urns begins:
\* read the summary from pending.  A failed read ends the turn.
ReadStep(p, f) ==
    /\ pc[p] = "read"
    /\ LET h == disp[p][cur[p]].HuntId
           k == urns[p][idx[p]]
       IN /\ EntryFaultOnly(f, {k})
          /\ f.write = {} /\ f.launch = {}
          /\ Fault(f)
          /\ IF k \in f.read
             THEN /\ NextTurn(p)
                  /\ UNCHANGED response
             ELSE /\ response' = [response EXCEPT ![p] =
                                    Response(GetSubject(queues[h].pending, k), FALSE)]
                  /\ pc' = [pc EXCEPT ![p] = "launch"]
                  /\ UNCHANGED idx
    /\ UNCHANGED <<now, world, locks, dispatcher, disp, cur, modified, err, urns, op, ret,
                   wake, history>>

\* The turn goes on: call LaunchFlow for the client of the summary.  When
\* the RPC succeeds the flow exists, and the summary is not stored yet.
LaunchStep(p, f) ==
    /\ pc[p] = "launch"
    /\ LET h == disp[p][cur[p]].HuntId
           summary == response[p].summary
           c == summary.ClientId
       IN /\ EntryFaultOnly(f, {c})
          /\ f.read = {} /\ f.write = {}
          /\ Fault(f)
          /\ flows' = IF c \in f.launch THEN flows
                      ELSE [flows EXCEPT ![h][c] = LaunchFlow(@)]
          /\ response' = [response EXCEPT ![p] = Response(summary, c \in f.launch)]
    /\ pc' = [pc EXCEPT ![p] = "record"]
    /\ UNCHANGED <<now, store, queues, locks, dispatcher, disp, cur, modified, err, urns, idx,
                   op, ret, wake, history>>

\* The turn ends: store the summary under running and count
\* the client as scheduled, or under errors when LaunchFlow failed.
RecordStep(p, f) ==
    /\ pc[p] = "record"
    /\ LET hunt == disp[p][cur[p]]
           h == hunt.HuntId
           summary == response[p].summary
           c == summary.ClientId
           acc0 == [hunt |-> hunt, qs |-> queues[h], modified |-> modified[p]]
           acc == IF response[p].failed THEN LaunchFailed(acc0, summary, f)
                  ELSE LaunchDone(acc0, summary, f)
       IN /\ EntryFaultOnly(f, {c})
          /\ f.read = {} /\ f.launch = {}
          /\ Fault(f)
          /\ queues' = [queues EXCEPT ![h] = acc.qs]
          /\ disp' = [disp EXCEPT ![p][cur[p]] = acc.hunt]
          /\ modified' = [modified EXCEPT ![p] = acc.modified]
          /\ promoted' = [promoted EXCEPT ![p] =
                            IF ~response[p].failed /\ c \in QKeys(acc.qs.running)
                            THEN @ \cup {c} ELSE @]
    /\ response' = [response EXCEPT ![p] = NoResponse]
    /\ NextTurn(p)
    /\ UNCHANGED <<now, store, flows, locks, dispatcher, cur, err, urns, op, ret, wake,
                   counted, unpaused, paused_ever>>

\* One turn of _ScheduleClientsForHunt's deferred removal of the listed
\* urns from pending; after the last one the function returns to Update.
\* The err the removal assigns is the one declared inside the if block, so
\* the function returns the outer err, nil.
UnpendStep(p, f) ==
    /\ pc[p] = "unpend"
    /\ LET h == disp[p][cur[p]].HuntId
           k == urns[p][idx[p]]
       IN /\ DeleteFaultOnly(f, k)
          /\ Fault(f)
          /\ queues' = [queues EXCEPT ![h].pending = DeleteUrns(@, <<k>>, f)]
    /\ IF idx[p] < Len(urns[p])
       THEN /\ idx' = [idx EXCEPT ![p] = @ + 1]
            /\ UNCHANGED <<pc, urns>>
       ELSE /\ idx' = [idx EXCEPT ![p] = 0]
            /\ urns' = [urns EXCEPT ![p] = <<>>]
            /\ pc' = [pc EXCEPT ![p] = "triage"]
    /\ UNCHANGED <<now, store, flows, locks, dispatcher, disp, cur, modified, err, response,
                   op, ret, wake, history>>

\* One call of _SortResultsForHunt in Update's inner loop, up to the
\* listing of completed: with nothing listed it returns result_count 0 and
\* the inner loop ends.
TriageStep(p, f) ==
    /\ pc[p] = "triage"
    /\ ListFaultOnly(f)
    /\ Fault(f)
    /\ LET h == disp[p][cur[p]].HuntId
           listed == ListChildren(queues[h].completed, 0, TriagePage)
       IN /\ err' = [err EXCEPT ![p] = IF f.list THEN "list" ELSE "nil"]
          /\ IF ~f.list /\ Len(listed) > 0
             THEN /\ urns' = [urns EXCEPT ![p] = listed]
                  /\ idx' = [idx EXCEPT ![p] = 1]
                  /\ pc' = [pc EXCEPT ![p] = "sort"]
             ELSE /\ pc' = [pc EXCEPT ![p] = "persist"]
                  /\ UNCHANGED <<urns, idx>>
    /\ UNCHANGED <<now, world, locks, dispatcher, disp, cur, modified, response, op, ret,
                   wake, history>>

\* One turn of _SortResultsForHunt's loop over the listed urns: read the
\* summary, count it and store it under its destination.
SortStep(p, f) ==
    /\ pc[p] = "sort"
    /\ LET hunt == disp[p][cur[p]]
           h == hunt.HuntId
           k == urns[p][idx[p]]
           c == GetSubject(queues[h].completed, k).ClientId
           acc == SortLoop(<<k>>, 1,
                     [hunt |-> hunt, qs |-> queues[h], modified |-> FALSE,
                      result_count |-> 0, err |-> err[p], sorted |-> <<>>], f)
       IN /\ CounterRoom(hunt)
          /\ EntryFaultOnly(f, {k, c})
          /\ f.launch = {}
          /\ Fault(f)
          /\ queues' = [queues EXCEPT ![h] = acc.qs]
          /\ disp' = [disp EXCEPT ![p][cur[p]] = acc.hunt]
          /\ err' = [err EXCEPT ![p] = acc.err]
          /\ counted' = [counted EXCEPT ![h] = @ \cup {k}]
    /\ IF idx[p] < Len(urns[p])
       THEN /\ idx' = [idx EXCEPT ![p] = @ + 1]
            /\ UNCHANGED pc
       ELSE /\ idx' = [idx EXCEPT ![p] = 1]
            /\ pc' = [pc EXCEPT ![p] = "uncomplete"]
    /\ UNCHANGED <<now, store, flows, locks, dispatcher, cur, modified, urns, response, op,
                   ret, wake, unpaused, paused_ever, promoted>>

\* One turn of _SortResultsForHunt's deferred removal of the listed urns
\* from completed; after the last one the function returns modified and a
\* result_count above 0 to Update, whose inner loop calls it again.
UncompleteStep(p, f) ==
    /\ pc[p] = "uncomplete"
    /\ LET h == disp[p][cur[p]].HuntId
           k == urns[p][idx[p]]
           refused == [f EXCEPT !.del = @ \cup ({k} \cap readonly)]
       IN /\ DeleteFaultOnly(f, k)
          /\ DeleteFault(f, k)
          /\ queues' = [queues EXCEPT ![h].completed = DeleteUrns(@, <<k>>, refused)]
          /\ err' = [err EXCEPT ![p] = IF k \in refused.del THEN "delete" ELSE @]
    /\ IF idx[p] < Len(urns[p])
       THEN /\ idx' = [idx EXCEPT ![p] = @ + 1]
            /\ UNCHANGED <<pc, urns, modified>>
       ELSE /\ idx' = [idx EXCEPT ![p] = 0]
            /\ urns' = [urns EXCEPT ![p] = <<>>]
            /\ modified' = [modified EXCEPT ![p] = TRUE]
            /\ pc' = [pc EXCEPT ![p] = "triage"]
    /\ UNCHANGED <<now, store, flows, locks, dispatcher, disp, cur, response, op, ret, wake,
                   history>>

\* The end of Update's loop body: store the hunt if it was modified.
PersistStep(p, f) ==
    /\ pc[p] = "persist"
    /\ Fault(f)
    /\ f.persist => modified[p]
    /\ LET hunt == disp[p][cur[p]]
       IN /\ store' = IF modified[p] /\ ~f.persist THEN PutHunt(store, hunt) ELSE store
          /\ unpaused' = [unpaused EXCEPT ![hunt.HuntId] = NoUnpause]
    /\ promoted' = [promoted EXCEPT ![p] = {}]
    /\ cur' = [cur EXCEPT ![p] = @ + 1]
    /\ modified' = [modified EXCEPT ![p] = FALSE]
    /\ err' = [err EXCEPT ![p] = "nil"]
    /\ pc' = [pc EXCEPT ![p] = AfterHunt(p, disp[p], cur[p] + 1)]
    /\ UNCHANGED <<now, queues, flows, locks, dispatcher, disp, urns, idx, response, op,
                   ret, wake, counted, paused_ever>>


\* The end of Refresh: swap the dispatcher under mu, release both locks and
\* return to the caller: the background loop sleeps again, CreateHunt and
\* ModifyHunt return success.
Publish(p) ==
    /\ pc[p] = "publish"
    /\ mu = "free"
    /\ dispatcher' = Dispatcher(disp[p])
    /\ refresh_mu' = "free"
    /\ disp' = [disp EXCEPT ![p] = <<>>]
    /\ cur' = [cur EXCEPT ![p] = 0]
    /\ IF p = "bg"
       THEN /\ pc' = [pc EXCEPT ![p] = "sleep"]
            /\ wake' = now + RefreshInterval
            /\ UNCHANGED <<op, ret>>
       ELSE /\ pc' = [pc EXCEPT ![p] = "idle"]
            /\ ret' = [ret EXCEPT ![p] = Done(op[p])]
            /\ op' = [op EXCEPT ![p] = NoOp]
            /\ UNCHANGED wake
    /\ err' = [err EXCEPT ![p] = "nil"]
    /\ UNCHANGED <<now, world, mu, modified, urns, idx, response, faults, history>>

\* The background goroutine: Sleep is over, call Refresh.
BackgroundWake ==
    /\ pc["bg"] = "sleep"
    /\ now >= wake
    /\ pc' = [pc EXCEPT !["bg"] = "rlock"]
    /\ UNCHANGED <<now, world, locks, dispatcher, locals, op, ret, wake, faults, history>>

\* GetHuntDispatcher, called by ListHunts or GetHunt: under mu, return the
\* dispatcher if there is one, else start building the first one.
GetHuntDispatcher(p, name, id) ==
    /\ pc[p] = "idle"
    /\ mu = "free"
    /\ LET o == [name |-> name, HuntId |-> id, State |-> "UNSET", obj |-> <<>>]
       IN IF dispatcher.nil
          THEN /\ mu' = p
               /\ op' = [op EXCEPT ![p] = o]
               /\ pc' = [pc EXCEPT ![p] = "build"]
               /\ UNCHANGED ret
          ELSE /\ ret' = [ret EXCEPT ![p] = Answer(o, dispatcher.hunts)]
               /\ UNCHANGED <<mu, op, pc>>
    /\ UNCHANGED <<now, world, refresh_mu, dispatcher, locals, wake, faults, history>>

ListHunts(p) == GetHuntDispatcher(p, "ListHunts", 0)

GetHunt(p, id) == GetHuntDispatcher(p, "GetHunt", id)

\* The end of the first build in GetHuntDispatcher: keep the dispatcher,
\* start the background goroutine, release mu and answer the caller.
FirstSet(p) ==
    /\ pc[p] = "g_set"
    /\ dispatcher' = Dispatcher(disp[p])
    /\ mu' = "free"
    /\ pc' = [pc EXCEPT ![p] = "idle", !["bg"] = "sleep"]
    /\ wake' = now + RefreshInterval
    /\ ret' = [ret EXCEPT ![p] = Answer(op[p], disp[p])]
    /\ op' = [op EXCEPT ![p] = NoOp]
    /\ disp' = [disp EXCEPT ![p] = <<>>]
    /\ cur' = [cur EXCEPT ![p] = 0]
    /\ UNCHANGED <<now, world, refresh_mu, modified, err, urns, idx, response, faults,
                   history>>

\* ------------------------------------------------------------ the API
\* CreateHunt up to the write: fill in the hunt with the id GetNewHuntId
\* draws and the time of the call.  GetNewHuntId draws 32 random bits and
\* nothing checks them against the store, so the id may be that of a stored
\* hunt.
CreateHunt(p, id, state, rate) ==
    /\ pc[p] = "idle"
    /\ id \in HuntIds
    /\ LET hunt == NewHunt(id, state, rate, now)
       IN op' = [op EXCEPT ![p] = [name |-> "CreateHunt", HuntId |-> id,
                                   State |-> hunt.State, obj |-> <<hunt>>]]
    /\ pc' = [pc EXCEPT ![p] = "c_write"]
    /\ UNCHANGED <<now, world, locks, dispatcher, locals, ret, wake, faults, history>>

\* CreateHunt: store the hunt, replacing a stored hunt of the same id, then
\* go on to Refresh; when the write fails, return the error.
CreateWrite(p, wfail) ==
    /\ pc[p] = "c_write"
    /\ Fault(IF wfail THEN [NoFault EXCEPT !.persist = TRUE] ELSE NoFault)
    /\ LET o == [op[p] EXCEPT !.obj = <<>>]
           hunt == op[p].obj[1]
       IN IF wfail
          THEN /\ ret' = [ret EXCEPT ![p] = Failed(o, "store")]
               /\ op' = [op EXCEPT ![p] = NoOp]
               /\ pc' = [pc EXCEPT ![p] = "idle"]
               /\ UNCHANGED <<store, paused_ever>>
          ELSE /\ store' = PutHunt(store, hunt)
               /\ paused_ever' = IF hunt.State = "PAUSED" THEN paused_ever \cup {hunt.HuntId}
                                 ELSE paused_ever
               /\ op' = [op EXCEPT ![p] = o]
               /\ pc' = [pc EXCEPT ![p] = "rlock"]
               /\ UNCHANGED ret
    /\ UNCHANGED <<now, queues, flows, locks, dispatcher, locals, wake, counted, unpaused,
                   promoted>>

ModifyStates == {"UNSET", "PAUSED", "RUNNING", "STOPPED"}

\* ModifyHunt: read hunt_obj from the store.
ModifyRead(p, id, state) ==
    /\ pc[p] = "idle"
    /\ HasHunt(store, id)
    /\ op' = [op EXCEPT ![p] = [name |-> "ModifyHunt", HuntId |-> id, State |-> state,
                                obj |-> <<HuntObj(store, id)>>]]
    /\ pc' = [pc EXCEPT ![p] = "m_write"]
    /\ UNCHANGED <<now, world, locks, dispatcher, locals, ret, wake, faults, history>>

\* ModifyHunt: apply the modification and store hunt_obj, then go on to
\* Refresh; without a state in the modification, or when the write fails,
\* return the error.
ModifyWrite(p, wfail) ==
    /\ pc[p] = "m_write"
    /\ Fault(IF wfail THEN [NoFault EXCEPT !.persist = TRUE] ELSE NoFault)
    /\ wfail => op[p].State # "UNSET"
    /\ LET o == op[p]
           hunt_obj == o.obj[1]
       IN IF o.State = "UNSET" \/ wfail
          THEN /\ ret' = [ret EXCEPT ![p] =
                             Failed(o, IF wfail THEN "store"
                                       ELSE "Modification not supported.")]
               /\ op' = [op EXCEPT ![p] = NoOp]
               /\ pc' = [pc EXCEPT ![p] = "idle"]
               /\ UNCHANGED <<store, unpaused, paused_ever>>
          ELSE /\ store' = PutHunt(store, ModifiedHunt(hunt_obj, o.State, now))
               /\ paused_ever' = IF o.State = "PAUSED" THEN paused_ever \cup {o.HuntId}
                                 ELSE paused_ever
               /\ unpaused' = IF hunt_obj.State = "PAUSED" /\ o.State = "RUNNING"
                              THEN [unpaused EXCEPT ![o.HuntId] =
                                      [at |-> now, sched |-> hunt_obj.TotalClientsScheduled]]
                              ELSE unpaused
               /\ pc' = [pc EXCEPT ![p] = "rlock"]
               /\ UNCHANGED <<op, ret>>
    /\ UNCHANGED <<now, queues, flows, locks, dispatcher, locals, wake, counted,
                   promoted>>

\* ------------------------------------------------------ specification
Booleans == {TRUE, FALSE}

KeyFaults == UNION {{[NoFault EXCEPT !.read = {k}], [NoFault EXCEPT !.write = {k}],
                     [NoFault EXCEPT !.del = {k}]} : k \in Keys}

ScheduleFaults == {NoFault, [NoFault EXCEPT !.list = TRUE]} \cup KeyFaults
                    \cup {[NoFault EXCEPT !.launch = {c}] : c \in Clients}

TriageFaults == {NoFault, [NoFault EXCEPT !.list = TRUE]} \cup KeyFaults

BuildFaults == {NoFault, [NoFault EXCEPT !.list = TRUE], [NoFault EXCEPT !.load = TRUE]}

PersistFaults == {NoFault, [NoFault EXCEPT !.persist = TRUE]}

NoFaults == {NoFault}

\* The steps of a refresh cycle of p outside the two loops: taking the lock,
\* the build, the listings of pending and of completed for each hunt, the
\* write of the modified hunt and the publication.
CycleLists(p, BF, SF, TF, PF) ==
    \/ RefreshLock(p)
    \/ \E f \in BF : Build(p, f)
    \/ \E f \in SF : UpdateStep(p, f)
    \/ \E f \in TF : TriageStep(p, f)
    \/ \E f \in PF : PersistStep(p, f)
    \/ Publish(p)

\* The turns of the scheduler over the urns it listed from pending.
CycleLaunches(p, SF) ==
    \/ \E f \in SF : ReadStep(p, f)
    \/ \E f \in SF : LaunchStep(p, f)
    \/ \E f \in SF : RecordStep(p, f)
    \/ \E f \in SF : UnpendStep(p, f)

\* The turns of the triage over the urns it listed from completed.
CycleSorts(p, TF) ==
    \/ \E f \in TF : SortStep(p, f)
    \/ \E f \in TF : UncompleteStep(p, f)

\* One refresh cycle step of p, the store and the launch RPC failing as the
\* fault sets allow.
Cycle(p, BF, SF, TF, PF) ==
    \/ CycleLists(p, BF, SF, TF, PF)
    \/ CycleLaunches(p, SF)
    \/ CycleSorts(p, TF)

\* The scheduler under the clock, which advances by half seconds: one API
\* goroutine creates hunts (again and again, under the same id), pauses
\* and unpauses them, the foreman enqueues clients, nothing fails; no flow
\* reports before the run ends, so every listing of completed is empty.
NextRate ==
    \/ TickHalf
    \/ \E c \in Clients : ForemanEnqueue(1, c)
    \/ \E state \in {"UNSET", "RUNNING"}, rate \in ClientRates :
          CreateHunt("a1", 1, state, rate)
    \/ CreateWrite("a1", FALSE)
    \/ \E state \in {"PAUSED", "RUNNING"} : ModifyRead("a1", 1, state)
    \/ ModifyWrite("a1", FALSE)
    \/ CycleLists("a1", NoFaults, NoFaults, NoFaults, NoFaults)
    \/ CycleLaunches("a1", NoFaults)

SpecRate == Init /\ [][NextRate]_vars

\* The scheduler under the clock for hunts that are never paused: time
\* passes by half seconds, one API goroutine creates the hunt running
\* (again and again, each time under the same id) and modifies it to
\* RUNNING, the foreman enqueues clients, nothing fails; no flow reports
\* before the run ends, so every listing of completed is empty.
NextSteady ==
    \/ TickHalf
    \/ \E c \in Clients : ForemanEnqueue(1, c)
    \/ \E rate \in ClientRates : CreateHunt("a1", 1, "RUNNING", rate)
    \/ CreateWrite("a1", FALSE)
    \/ ModifyRead("a1", 1, "RUNNING")
    \/ ModifyWrite("a1", FALSE)
    \/ CycleLists("a1", NoFaults, NoFaults, NoFaults, NoFaults)
    \/ CycleLaunches("a1", NoFaults)

SpecSteady == Init /\ [][NextSteady]_vars

\* What the delegate does with a message: the state it is in afterwards and
\* whether it returned an error; a delegate that fails ends in ERROR.
Outcomes == {<<"RUNNING", FALSE>>, <<"TERMINATED", FALSE>>, <<"ERROR", FALSE>>,
             <<"ERROR", TRUE>>}

\* The TotalResults a delegate reports: none, or some.
Totals == {0, MaxResults}

\* The queues under failures: the hunt is created running by one API
\* goroutine (more than once, under the same id), whose Refresh calls run
\* the cycles; the flows handle messages; the store and the launch RPC may
\* fail.
NextTriage ==
    \/ TickInterval
    \/ \E c \in Clients : ForemanEnqueue(1, c)
    \/ \E c \in Clients, o \in Outcomes, total \in Totals, wfail \in Booleans :
          ProcessMessage(1, c, o[1], total, o[2], wfail)
    \/ CreateHunt("a1", 1, "RUNNING", 60)
    \/ CreateWrite("a1", FALSE)
    \/ Cycle("a1", NoFaults, ScheduleFaults, TriageFaults, NoFaults)

SpecTriage == Init /\ [][NextTriage]_vars

\* The queues without failures: as NextTriage, the store and the launch RPC
\* always succeeding.
NextQueues ==
    \/ TickInterval
    \/ \E c \in Clients : ForemanEnqueue(1, c)
    \/ \E c \in Clients, o \in Outcomes, total \in Totals :
          ProcessMessage(1, c, o[1], total, o[2], FALSE)
    \/ \E state \in {"RUNNING", "ARCHIVED"} : CreateHunt("a1", 1, state, 60)
    \/ CreateWrite("a1", FALSE)
    \/ \E state \in {"PAUSED", "RUNNING", "STOPPED"} : ModifyRead("a1", 1, state)
    \/ ModifyWrite("a1", FALSE)
    \/ Cycle("a1", NoFaults, NoFaults, NoFaults, NoFaults)

SpecQueues == Init /\ [][NextQueues]_vars

\* Hunts in every state, no failure: a hunt is created RUNNING or ARCHIVED
\* (again and again, under the same id), paused, stopped and resumed,
\* clients are enqueued whatever the state, and
\* the flows launched while the hunt was RUNNING end with results.
NextSkip ==
    \/ TickInterval
    \/ \E c \in Clients : ForemanEnqueue(1, c)
    \/ \E c \in Clients : ProcessMessage(1, c, "TERMINATED", MaxResults, FALSE, FALSE)
    \/ \E state \in {"RUNNING", "ARCHIVED"} : CreateHunt("a1", 1, state, 60)
    \/ CreateWrite("a1", FALSE)
    \/ \E state \in {"PAUSED", "RUNNING", "STOPPED"} : ModifyRead("a1", 1, state)
    \/ ModifyWrite("a1", FALSE)
    \/ Cycle("a1", NoFaults, NoFaults, NoFaults, NoFaults)

SpecSkip == Init /\ [][NextSkip]_vars

\* The background goroutine beside one API goroutine, no failure: the first
\* ListHunts starts the background loop, whose refresh cycles interleave
\* with CreateHunt, ModifyHunt and the reads; the foreman enqueues clients
\* and the flows end with results.
NextRace ==
    \/ TickInterval
    \/ \E c \in Clients : ForemanEnqueue(1, c)
    \/ \E c \in Clients : ProcessMessage(1, c, "TERMINATED", MaxResults, FALSE, FALSE)
    \/ ListHunts("a1")
    \/ GetHunt("a1", 1)
    \/ FirstSet("a1")
    \/ CreateHunt("a1", 1, "RUNNING", 60)
    \/ CreateWrite("a1", FALSE)
    \/ \E state \in {"PAUSED", "RUNNING"} : ModifyRead("a1", 1, state)
    \/ ModifyWrite("a1", FALSE)
    \/ BackgroundWake
    \/ \E p \in Procs : Cycle(p, NoFaults, NoFaults, NoFaults, NoFaults)

SpecRace == Init /\ [][NextRace]_vars

\* The cache under failures of the build: one API goroutine creates and
\* modifies hunts and reads them; listing the hunts or loading one may fail
\* in any build, the first one in GetHuntDispatcher or one in Refresh. The
\* foreman enqueues no client, so every listing of a queue is empty.
NextCache ==
    \/ ListHunts("a1")
    \/ \E id \in HuntIds : GetHunt("a1", id)
    \/ FirstSet("a1")
    \/ \E id \in HuntIds, state \in {"UNSET", "RUNNING"} :
          CreateHunt("a1", id, state, 60)
    \/ CreateWrite("a1", FALSE)
    \/ \E id \in HuntIds, state \in {"PAUSED", "RUNNING"} : ModifyRead("a1", id, state)
    \/ ModifyWrite("a1", FALSE)
    \/ CycleLists("a1", BuildFaults, NoFaults, NoFaults, NoFaults)

SpecCache == Init /\ [][NextCache]_vars

\* Readers beside rebuilds, no failure: a1 reads with ListHunts and GetHunt,
\* a2 creates and modifies hunts, each mutation ending in a Refresh, and the
\* background goroutine refreshes once a1's first read has started it. The
\* foreman enqueues no client, so every listing of a queue is empty.
NextLock ==
    \/ TickInterval
    \/ ListHunts("a1")
    \/ GetHunt("a1", 1)
    \/ FirstSet("a1")
    \/ \E state \in {"UNSET", "RUNNING"} : CreateHunt("a2", 1, state, 60)
    \/ CreateWrite("a2", FALSE)
    \/ \E state \in {"PAUSED", "RUNNING"} : ModifyRead("a2", 1, state)
    \/ ModifyWrite("a2", FALSE)
    \/ BackgroundWake
    \/ \E p \in Procs : CycleLists(p, NoFaults, NoFaults, NoFaults, NoFaults)

SpecLock == Init /\ [][NextLock]_vars

\* ------------------------------------------------------ GetHuntResults
\* uint64 arithmetic.  The checker's integers have 32 bits, so the words
\* are modelled with 16 bits: a difference below zero wraps to a value far
\* above every length and offset of the model, as it does with 64 bits.
WordModulus == 65536

Add64(a, b) == (a + b) % WordModulus

Sub64(a, b) == (a - b) % WordModulus

DefaultCount == 50
ResultsPage == 50

\* The result items of a client's flow: TotalResults of them, numbered
\* from 0.
FlowItems(info) == [i \in 1..info.Result.TotalResults |-> <<info.ClientId, i - 1>>]

\* GetFlowResults(client, flow, offset, count): the items of the flow from
\* offset, at most count of them.
GetFlowResults(info, offset, count) ==
    SelectSeq(FlowItems(info), LAMBDA it : it[2] >= offset /\ it[2] - offset < count)

\* The body of GetHuntResults' inner loop for one HuntInfo of the page; st
\* is offset, the result items so far and whether the function returned.
ResultsOne(info, st, inOffset, inCount) ==
    IF st.returned THEN st
    ELSE IF Add64(st.offset, info.Result.TotalResults) < inOffset
    THEN [st EXCEPT !.offset = Add64(st.offset, info.Result.TotalResults)]
    ELSE LET first_result == Sub64(inOffset, st.offset)
             count == Sub64(inCount, st.offset)
             flow_results == GetFlowResults(info, first_result, count)
             items == st.items \o flow_results
         IN [offset |-> Add64(st.offset, Len(flow_results)),
             items |-> items,
             returned |-> Len(items) >= inCount]

RECURSIVE ResultsUrns(_, _, _, _, _, _)
ResultsUrns(q, client_urns, i, st, inOffset, inCount) ==
    IF i > Len(client_urns) THEN st
    ELSE ResultsUrns(q, client_urns, i + 1,
                     ResultsOne(Obj(q, client_urns[i]), st, inOffset, inCount),
                     inOffset, inCount)

\* GetHuntResults' outer loop: one page of the results queue after the
\* other until a page is empty or the inner loop returned.
RECURSIVE ResultsPages(_, _, _, _, _)
ResultsPages(q, children_offset, st, inOffset, inCount) ==
    LET client_urns == ListChildren(q, children_offset, ResultsPage)
    IN IF st.returned \/ Len(client_urns) = 0 THEN st
       ELSE ResultsPages(q, children_offset + Len(client_urns),
                         ResultsUrns(q, client_urns, 1, st, inOffset, inCount),
                         inOffset, inCount)

\* The items GetHuntResults returns for the request (Offset, Count) on the
\* results queue q.
GetHuntResultsItems(q, inOffset, inCount) ==
    LET count == IF inCount = 0 THEN DefaultCount ELSE inCount
    IN ResultsPages(q, 0, [offset |-> 0, items |-> <<>>, returned |-> FALSE],
                    inOffset, count).items

\* GetHuntResults called by p on hunt id; the answer keeps the request.
GetHuntResults(p, id, inOffset, inCount) ==
    /\ pc[p] = "idle"
    /\ ret' = [ret EXCEPT ![p] =
                 [op |-> "GetHuntResults", err |-> "nil",
                  items |-> GetHuntResultsItems(queues[id].results, inOffset, inCount),
                  Offset |-> inOffset, Count |-> inCount]]
    /\ UNCHANGED <<now, world, locks, dispatcher, pc, locals, op, wake, faults, history>>

\* The HuntInfo triage leaves in results for client c with total results.
ResultInfo(c, total) ==
    [ClientId |-> c, FlowId |-> 1, State |-> "UNSET",
     Result |-> FlowContext("TERMINATED", total)]

\* The results queues of MaxTotal results a client at most.
ResultsQueues ==
    UNION {{{ResultInfo(c, t[c]) : c \in S} : t \in [S -> 1..MaxTotal]} :
              S \in SUBSET Clients}

\* A hunt whose results queue is filled, before any request.
InitResults ==
    /\ now = StartTime
    /\ store = {}
    /\ \E rq \in ResultsQueues :
          queues = [h \in HuntIds |->
                      [q \in QueueNames |-> IF h = 1 /\ q = "results" THEN rq ELSE {}]]
    /\ flows = [h \in HuntIds |-> [c \in Keys |-> NoFlow]]
    /\ refresh_mu = "free"
    /\ mu = "free"
    /\ dispatcher = NilDispatcher
    /\ pc = [p \in Procs |-> IF p = "bg" THEN "off" ELSE "idle"]
    /\ disp = [p \in Procs |-> <<>>]
    /\ cur = [p \in Procs |-> 0]
    /\ modified = [p \in Procs |-> FALSE]
    /\ err = [p \in Procs |-> "nil"]
    /\ urns = [p \in Procs |-> <<>>]
    /\ idx = [p \in Procs |-> 0]
    /\ response = [p \in Procs |-> NoResponse]
    /\ op = [p \in Procs |-> NoOp]
    /\ ret = [p \in Procs |-> NoRet]
    /\ wake = 0
    /\ nfaults = 0
    /\ readonly = {}
    /\ fault = NoFault
    /\ counted = [h \in HuntIds |-> {}]
    /\ unpaused = [h \in HuntIds |-> NoUnpause]
    /\ paused_ever = {}
    /\ promoted = [p \in Procs |-> {}]

\* Requests for the results of hunt 1.
NextResults ==
    \E inOffset \in 0..MaxOffset, inCount \in 0..MaxCount :
        GetHuntResults("a1", 1, inOffset, inCount)

SpecResults == InitResults /\ [][NextResults]_vars

LaunchFaults == {NoFault} \cup {[NoFault EXCEPT !.launch = {c}] : c \in Clients}

\* The scheduler under launch failures: a RUNNING hunt, clients enqueued,
\* the cycles of the API goroutine's Refresh calls; LaunchFlow may fail for
\* a client, the store never fails; the launched flows end with results.
NextLaunch ==
    \/ TickInterval
    \/ \E c \in Clients : ForemanEnqueue(1, c)
    \/ \E c \in Clients : ProcessMessage(1, c, "TERMINATED", MaxResults, FALSE, FALSE)
    \/ CreateHunt("a1", 1, "RUNNING", 60)
    \/ CreateWrite("a1", FALSE)
    \/ ModifyRead("a1", 1, "RUNNING")
    \/ ModifyWrite("a1", FALSE)
    \/ Cycle("a1", NoFaults, LaunchFaults, NoFaults, NoFaults)

SpecLaunch == Init /\ [][NextLaunch]_vars

\* ------------------------------------------------------------ claims
\* The positions of a goroutine inside Update.
UpdatePcs == {"update", "read", "launch", "record", "unpend", "triage", "sort",
              "uncomplete", "persist"}

\* The goroutine's Update has entered the scheduler for the hunt it works
\* on.
Scheduling(p) == pc[p] \in UpdatePcs \ {"update"}

\* Every copy of hunt objects there is: the stored ones, the published ones
\* and the ones of dispatchers being built.
AllHuntCopies ==
    store \cup SeqToSet(dispatcher.hunts) \cup UNION {SeqToSet(disp[p]) : p \in Procs}

\* floor(R*T/60) + TotalClientsWhenUnpaused, R the rate (0 counted as 20), T
\* the whole seconds from `since` to now.
RateAllows(rate, since) ==
    ((IF rate = 0 THEN 20 ELSE rate) * ((now - since) \div 1000000)) \div 60

C1_Bound ==
    \A hunt \in AllHuntCopies :
        hunt.HuntId \notin paused_ever =>
            hunt.TotalClientsScheduled
                <= RateAllows(hunt.ClientRate, hunt.CreateTime)
                     + hunt.TotalClientsWhenUnpaused

C1_Pull ==
    \A p \in Procs :
        /\ pc[p] = "update" /\ pc'[p] # "update" =>
              LET hunt == disp[p][cur[p]]
                  deficit == RateAllows(hunt.ClientRate, LastUnpauseOf(hunt))
                               + hunt.TotalClientsWhenUnpaused
                               - hunt.TotalClientsScheduled
              IN Len(urns'[p]) <= IF deficit > 0 THEN deficit ELSE 0
        /\ pc[p] \in {"read", "launch", "record", "unpend"}
              /\ pc'[p] \in {"read", "launch", "record", "unpend"} =>
              urns'[p] = urns[p]
        /\ \A h \in HuntIds :
              QKeys(queues[h].pending) \ QKeys(queues'[h].pending)
                 \subseteq UNION {SeqToSet(urns[q]) : q \in {r \in Procs : pc[r] = "unpend"}}

\* C1: the TotalClientsScheduled of a RUNNING hunt that was never paused
\* never exceeds floor(R*T/60) + TotalClientsWhenUnpaused, T the whole
\* seconds since its creation, whatever the depth of the pending queue, and
\* one scheduler step pulls at most expected - TotalClientsScheduled entries
\* from pending: it lists no more than that, works on what it listed and
\* nothing else leaves pending.
C1_RateBound == [](C1_Bound) /\ [][C1_Pull]_vars

\* C1's case: a hunt that was never paused has scheduled exactly what the
\* rate allows and further clients are left pending.
C1_Witness ==
    \E hunt \in store :
        /\ hunt.HuntId \notin paused_ever
        /\ hunt.State = "RUNNING"
        /\ hunt.TotalClientsScheduled > 0
        /\ hunt.TotalClientsScheduled = RateAllows(hunt.ClientRate, hunt.CreateTime)
        /\ queues[hunt.HuntId].pending # {}

\* C2: after a pause and an unpause through ModifyHunt, the next Update
\* schedules no more clients than the rate allows for the time since the
\* unpause.
C2_NoCatchUp ==
    \A p \in Procs :
        Scheduling(p) =>
            LET hunt == disp[p][cur[p]]
                u == unpaused[hunt.HuntId]
            IN u.at # 0 =>
                 hunt.TotalClientsScheduled - u.sched <= RateAllows(hunt.ClientRate, u.at)

\* C3: the hunt object ModifyHunt stores for a request of RUNNING on a hunt
\* stored PAUSED has LastUnpauseTime = the time of the call and
\* TotalClientsWhenUnpaused = the stored TotalClientsScheduled.
C3_Step ==
    \A p \in ApiProcs :
        (/\ pc[p] = "m_write"
         /\ pc'[p] = "rlock"
         /\ op[p].State = "RUNNING"
         /\ HuntObj(store, op[p].HuntId).State = "PAUSED")
        => LET before == HuntObj(store, op[p].HuntId)
               after == HuntObj(store', op[p].HuntId)
           IN /\ after.State = "RUNNING"
              /\ after.LastUnpauseTime = now
              /\ after.TotalClientsWhenUnpaused = before.TotalClientsScheduled

C3_UnpauseSnapshot == [][C3_Step]_vars

\* Whether the step is one of p's cycle: every such step moves p's pc, cur
\* or idx or changes the hunts p is building.
Stepped(p) ==
    pc'[p] # pc[p] \/ cur'[p] # cur[p] \/ idx'[p] # idx[p] \/ disp'[p] # disp[p]

\* The queues of hunt h that hold a HuntInfo of client c.
QueuesOf(h, c) == {q \in QueueNames : c \in QKeys(queues[h][q])}

Conserved == \A h \in HuntIds, c \in Clients : Cardinality(QueuesOf(h, c)) <= 1

\* C4: once a cycle has finished with no store or launch failure, the
\* HuntInfo of a client is in at most one of the six queues of a hunt.
C4_Step ==
    \A p \in Procs :
        pc[p] = "publish" /\ pc'[p] # "publish" /\ nfaults = 0 => Conserved'

C4_QueueConservation == [][C4_Step]_vars

\* The destination the claim gives a completed entry that was read.
ClaimedDestination(info) ==
    IF info.Result.isnil \/ info.Result.State = "ERROR" THEN "errors"
    ELSE IF info.Result.TotalResults > 0 THEN "results"
    ELSE "no_results"

Counter(hunt, dest) ==
    CASE dest = "errors" -> hunt.TotalClientsWithErrors
      [] dest = "results" -> hunt.TotalClientsWithResults
      [] dest = "no_results" -> hunt.TotalClientsWithoutResults

\* C5: a triage step that meets no failure files every entry of completed
\* it works on into its one destination queue and adds one to that queue's
\* counter for it and to no other; and no triage step counts an entry an
\* earlier one has counted.
C5_Step ==
    \A p \in Procs :
        pc[p] = "sort" /\ Stepped(p) =>
            LET hunt == disp[p][cur[p]]
                after == disp'[p][cur[p]]
                h == hunt.HuntId
                k == urns[p][idx[p]]
                e == GetSubject(queues[h].completed, k)
            IN /\ nfaults' = nfaults =>
                    \A d \in {"errors", "results", "no_results"} :
                       /\ (e \in queues'[h][d] /\ e \notin queues[h][d])
                              <=> d = ClaimedDestination(e)
                       /\ Counter(after, d) - Counter(hunt, d) =
                              IF d = ClaimedDestination(e) THEN 1 ELSE 0
               /\ k \notin counted[h]

C5_TriageOnce == [][C5_Step]_vars

\* C6: Update on a hunt that is not RUNNING writes and deletes nothing of
\* that hunt in the store, launches no flow for it and leaves its counters
\* as they are: no step of a cycle changes anything of a hunt that the
\* cycle loaded in another state than RUNNING.
C6_Step ==
    \A p \in Procs :
        Stepped(p) /\ pc[p] \in UpdatePcs =>
            \A i \in 1..Len(disp[p]) :
                disp[p][i].State # "RUNNING" =>
                    LET h == disp[p][i].HuntId
                    IN /\ queues'[h] = queues[h]
                       /\ flows'[h] = flows[h]
                       /\ disp'[p][i] = disp[p][i]
                       /\ {x \in store' : x.HuntId = h} = {x \in store : x.HuntId = h}

C6_IdempotentSkip == [][C6_Step]_vars

\* C6's case: a cycle has gone through Update with a hunt that is not
\* RUNNING and has clients in pending and in completed.
C6_Witness ==
    \E p \in Procs :
        /\ pc[p] = "publish"
        /\ \E i \in 1..Len(disp[p]) :
              /\ disp[p][i].State \in {"PAUSED", "STOPPED", "ARCHIVED"}
              /\ queues[disp[p][i].HuntId].pending # {}
              /\ queues[disp[p][i].HuntId].completed # {}

\* What GetHunt returns for hunt id from the dispatcher d.
Observed(d, id) ==
    Answer([name |-> "GetHunt", HuntId |-> id, State |-> "UNSET", obj |-> <<>>], d.hunts)

\* The mutation o is in the store st and is what a read of the dispatcher d
\* observes.
MutationVisible(o, st, d) ==
    /\ HasHunt(st, o.HuntId)
    /\ HuntObj(st, o.HuntId).State = o.State
    /\ Observed(d, o.HuntId).err = "nil"
    /\ Observed(d, o.HuntId).items[1].State = o.State

\* C7: when CreateHunt or ModifyHunt returns success, the store holds the
\* hunt in the requested state and ListHunts and GetHunt observe it so,
\* whatever a background refresh cycle did in between.
C7_Step ==
    \A p \in ApiProcs :
        (/\ pc[p] = "publish"
         /\ pc'[p] = "idle"
         /\ op[p].name \in {"CreateHunt", "ModifyHunt"})
            => MutationVisible(op[p], store', dispatcher')

C7_ReadYourWrite == [][C7_Step]_vars

Counters(hunt) ==
    <<hunt.TotalClientsScheduled, hunt.TotalClientsWithResults,
      hunt.TotalClientsWithErrors, hunt.TotalClientsWithoutResults>>

\* CreateHunt stores a new hunt under id in this step.
Recreated(id) ==
    \E p \in ApiProcs :
        pc[p] = "c_write" /\ pc'[p] = "rlock" /\ op[p].HuntId = id

\* C8: no step of a refresh cycle or of ModifyHunt lowers a counter of a
\* stored hunt, as long as the hunt stored under the id is the same one.
C8_Step ==
    \A id \in HuntIds :
        HasHunt(store, id) /\ HasHunt(store', id) /\ ~Recreated(id) =>
            \A i \in 1..4 :
                Counters(HuntObj(store', id))[i] >= Counters(HuntObj(store, id))[i]

C8_CountersMonotonic == [][C8_Step]_vars

\* What ListHunts returns from the dispatcher d.
Listed(d) ==
    Answer([name |-> "ListHunts", HuntId |-> 0, State |-> "UNSET", obj |-> <<>>], d.hunts)

\* C9: when the build of a Refresh has failed, Refresh publishes an empty
\* dispatcher in place of the one before: ListHunts returns no hunt from
\* it and GetHunt returns Not found for every hunt.
C9_Step ==
    \A p \in Procs :
        pc[p] = "publish" /\ pc'[p] # "publish" /\ err[p] = "build" =>
            /\ dispatcher' = Dispatcher(<<>>)
            /\ Listed(dispatcher').err = "nil"
            /\ Listed(dispatcher').items = <<>>
            /\ \A id \in HuntIds : Observed(dispatcher', id).err = "Not found"

C9_EmptyOnFailure == [][C9_Step]_vars

\* C9's case: the build of ModifyHunt's Refresh has failed and the empty
\* dispatcher is in the place of the one that had the hunt since CreateHunt,
\* and GetHunt has answered Not found though the store holds both hunts.
C9_Witness ==
    /\ nfaults > 0
    /\ dispatcher = Dispatcher(<<>>)
    /\ \A id \in HuntIds : HasHunt(store, id)
    /\ HuntObj(store, 1).State = "RUNNING"
    /\ 1 \in paused_ever
    /\ ret["a1"] = [op |-> "GetHunt", err |-> "Not found", items |-> <<>>]

Reads == {"ListHunts", "GetHunt"}

\* C10 as stated: no ListHunts and no GetHunt ever returns the error of a
\* store that failed during a build.
C10_NeverPropagated ==
    \A p \in ApiProcs : ret[p].op \in Reads => ret[p].err # "store"

\* The step is the return of a ListHunts or GetHunt of p.
ReadReturns(p) ==
    /\ pc'[p] = "idle"
    /\ ret'[p].op \in Reads
    /\ \/ pc[p] \in {"build", "g_set"} /\ op[p].name \in Reads
       \/ pc[p] = "idle" /\ ret'[p] # ret[p]

\* C10 amended: a failed build reaches a caller only from the first build, the
\* one GetHuntDispatcher makes while there is no dispatcher: ListHunts and
\* GetHunt return the store's error exactly when that build fails, and no
\* dispatcher is kept then; once there is a dispatcher they never return it,
\* and CreateHunt and ModifyHunt return success when the build of their
\* Refresh fails.
C10_Step ==
    \A p \in ApiProcs :
        /\ ReadReturns(p) =>
              /\ ret'[p].err = "store" <=> (dispatcher.nil /\ nfaults' > nfaults)
              /\ ret'[p].err = "store" => dispatcher'.nil
        /\ pc[p] = "publish" /\ pc'[p] = "idle" /\ err[p] = "build" =>
              ret'[p].err = "nil"

C10_FirstBuildOnly == [][C10_Step]_vars

\* C10's case: the first ListHunts of the process has returned the error of
\* the store, and there is still no dispatcher.
C10_Witness ==
    /\ dispatcher.nil
    /\ nfaults > 0
    /\ ret["a1"] = [op |-> "ListHunts", err |-> "store", items |-> <<>>]

\* C11: from the first time GetHuntDispatcher returns a dispatcher on, the
\* background refresh goroutine exists: no ListHunts or GetHunt returns an
\* answer from a dispatcher while the goroutine was never started.
C11_Step ==
    \A p \in ApiProcs :
        ReadReturns(p) /\ ret'[p].err # "store" => pc'["bg"] # "off"

C11_BackgroundStarted == [][C11_Step]_vars

\* Whether q is inside Refresh, building the dispatcher it will publish.
Rebuilding(q) == refresh_mu = q /\ pc[q] \in {"build"} \cup UpdatePcs

\* C12: once a dispatcher is published the publish lock mu is free in every
\* state, the ones where a Refresh is building included, so no
\* GetHuntDispatcher waits; and a ListHunts or GetHunt that returns while a
\* Refresh is building is answered from the dispatcher published before,
\* which stays in place.
C12_Free == ~dispatcher.nil => mu = "free"

C12_Step ==
    \A p \in ApiProcs :
        (/\ ReadReturns(p)
         /\ pc[p] = "idle"
         /\ \E q \in Procs : Rebuilding(q)) =>
            /\ dispatcher' = dispatcher
            /\ \/ ret'[p] = Listed(dispatcher)
               \/ \E id \in HuntIds : ret'[p] = Observed(dispatcher, id)

C12_ReadersNeverWait == [](C12_Free) /\ [][C12_Step]_vars

\* C12's case: the Refresh of a2's ModifyHunt is in the middle of its build
\* with the hunt as modified, the dispatcher published before is in place
\* with the lock free, and a1's ListHunts has returned that one's hunt.
C12_Witness ==
    /\ Rebuilding("a2")
    /\ pc["a2"] = "persist"
    /\ op["a2"].name = "ModifyHunt"
    /\ ~dispatcher.nil
    /\ mu = "free"
    /\ dispatcher.hunts # disp["a2"]
    /\ ret["a1"] = Listed(dispatcher)
    /\ ret["a1"].items # <<>>

\* The concatenation of the clients' result lists in the listing order of
\* the results queue q.
RECURSIVE ConcatResults(_, _)
ConcatResults(q, ks) ==
    IF Len(ks) = 0 THEN <<>>
    ELSE FlowItems(Obj(q, Head(ks))) \o ConcatResults(q, Tail(ks))

AllResults(q) == ConcatResults(q, SortedSeq(QKeys(q)))

\* The items at the positions offset .. offset+count-1 of the sequence s.
PageOf(s, offset, count) == SubSeq(s, offset + 1, Min(Len(s), offset + count))

\* C13: GetHuntResults (Offset, Count) returns the items at the positions
\* Offset .. Offset+Count-1 of the concatenated result lists, and no more
\* than Count items (50 for a Count of 0).
C13_ResultsPage ==
    \A p \in ApiProcs :
        ret[p].op = "GetHuntResults" =>
            LET count == IF ret[p].Count = 0 THEN DefaultCount ELSE ret[p].Count
            IN /\ ret[p].items = PageOf(AllResults(queues[1].results), ret[p].Offset, count)
               /\ Len(ret[p].items) <= count

\* The step is a turn of p in a loop of the call it is in.
Turn(p, at) == pc[p] = at /\ Stepped(p)

\* The urn the turn works on and the hunt it belongs to.
TurnUrn(p) == urns[p][idx[p]]

TurnHunt(p) == disp[p][cur[p]].HuntId

\* After the turn the loop goes on with the next urn, or is over and the
\* call goes on to `next`.
Proceeds(p, next) ==
    IF idx[p] < Len(urns[p])
    THEN pc'[p] = pc[p] /\ idx'[p] = idx[p] + 1 /\ urns'[p] = urns[p]
    ELSE pc'[p] = next

\* After the second half of a turn of the scheduler's loop the loop goes on
\* with the next urn, or is over and the deferred removal starts.
Continues(p) ==
    IF idx[p] < Len(urns[p])
    THEN pc'[p] = "read" /\ idx'[p] = idx[p] + 1 /\ urns'[p] = urns[p]
    ELSE pc'[p] = "unpend"

\* C14: in a scheduler step whose store calls succeed, a pulled entry whose
\* launch fails is written to errors with State ERROR and not to running,
\* TotalClientsWithErrors goes up by one and TotalClientsScheduled stays;
\* every other pulled entry is launched, written to running and counted as
\* scheduled; after either the step goes on with the rest of the batch, and
\* in the end every pulled entry is removed from pending.
C14_Step ==
    \A p \in Procs :
        /\ (Turn(p, "read") /\ fault'.read = {}) =>
              /\ pc'[p] = "launch"
              /\ response'[p] = Response(GetSubject(queues[TurnHunt(p)].pending, TurnUrn(p)),
                                         FALSE)
              /\ world' = world
              /\ disp' = disp
        /\ Turn(p, "launch") =>
              LET h == TurnHunt(p)
                  summary == response[p].summary
                  c == summary.ClientId
              IN /\ pc'[p] = "record"
                 /\ response'[p] = Response(summary, c \in fault'.launch)
                 /\ IF c \in fault'.launch
                    THEN flows'[h][c] = flows[h][c]
                    ELSE /\ flows'[h][c].Wrapper = "RUNNING"
                         /\ flows'[h][c].launches = flows[h][c].launches + 1
                 /\ queues' = queues
                 /\ disp' = disp
        /\ (Turn(p, "record") /\ fault'.write = {}) =>
              LET hunt == disp[p][cur[p]]
                  after == disp'[p][cur[p]]
                  h == hunt.HuntId
                  c == response[p].summary.ClientId
              IN /\ IF response[p].failed
                    THEN /\ c \in QKeys(queues'[h].errors)
                         /\ Obj(queues'[h].errors, c).State = "ERROR"
                         /\ queues'[h].running = queues[h].running
                         /\ after.TotalClientsWithErrors = hunt.TotalClientsWithErrors + 1
                         /\ after.TotalClientsScheduled = hunt.TotalClientsScheduled
                    ELSE /\ c \in QKeys(queues'[h].running)
                         /\ queues'[h].errors = queues[h].errors
                         /\ after.TotalClientsWithErrors = hunt.TotalClientsWithErrors
                         /\ after.TotalClientsScheduled = hunt.TotalClientsScheduled + 1
                 /\ flows' = flows
                 /\ Continues(p)
        /\ (Turn(p, "unpend") /\ fault'.del = {}) =>
              /\ TurnUrn(p) \notin QKeys(queues'[TurnHunt(p)].pending)
              /\ Proceeds(p, "triage")

C14_LaunchFailure == [][C14_Step]_vars

\* C14's case: a scheduler step has pulled clients 1 and 2, the launch for
\* client 1 has failed and client 2, after it in the batch, is launched.
C14_Witness ==
    /\ pc["a1"] = "unpend"
    /\ urns["a1"] = <<1, 2>>
    /\ nfaults = 1
    /\ 1 \in QKeys(queues[1].errors)
    /\ 2 \in QKeys(queues[1].running)
    /\ disp["a1"][1].TotalClientsWithErrors = 1
    /\ disp["a1"][1].TotalClientsScheduled = 1

\* The step is the return of a call of _SortResultsForHunt in p's Update
\* that has listed entries.
TriageReturn(p) == pc[p] = "uncomplete" /\ pc'[p] = "triage"

\* C15: when a triage step returns none of the entries it listed is in
\* completed any more.
C15_Step ==
    \A p \in Procs :
        TriageReturn(p) =>
            SeqToSet(urns[p]) \cap QKeys(queues'[TurnHunt(p)].completed) = {}

C15_CompletedRemoved == [][C15_Step]_vars

\* The positions of a goroutine inside _SortResultsForHunt.
TriagePcs == {"triage", "sort", "uncomplete"}

\* ------------------------------------------------------------ C16
\* The store starts to refuse DeleteSubject on completed/k, for good (a
\* read-only or permission-denied store).
RefuseDelete(k) ==
    /\ k \notin readonly
    /\ readonly' = readonly \cup {k}
    /\ UNCHANGED <<now, world, locks, dispatcher, pc, locals, op, ret, wake, nfaults,
                   fault, history>>

\* The triage loop over a store that refuses some deletes: one hunt is
\* created running, clients are enqueued and launched, each flow ends with
\* one message, so that the backlog of completed is finite and no
\* completion arrives once the flows are over; every other call of the
\* store succeeds.
NextStuck ==
    \/ TickInterval
    \/ \E c \in Clients : ForemanEnqueue(1, c)
    \/ \E c \in Clients : ProcessMessage(1, c, "TERMINATED", MaxResults, FALSE, FALSE)
    \/ \E c \in Clients : RefuseDelete(c)
    \/ CreateHunt("a1", 1, "RUNNING", 60)
    \/ CreateWrite("a1", FALSE)
    \/ Cycle("a1", NoFaults, NoFaults, NoFaults, NoFaults)

SpecStuck == Init /\ [][NextStuck]_vars

\* The backlog of the hunt p works on holds an entry the store refuses to
\* delete.
Undeletable(p) ==
    \E k \in readonly : k \in QKeys(queues[TurnHunt(p)].completed)

\* p is inside the triage loop of a hunt with such a backlog.
Trapped(p) == pc[p] \in TriagePcs /\ Undeletable(p)

\* No step takes a goroutine out of the triage loop while the backlog holds
\* an entry the store refuses to delete: every pass lists the entry, counts
\* it, fails to delete it and reports it as processed, whatever the
\* counters have come to.
C16_NoWayOut == [][\A p \in Procs : Trapped(p) => Trapped(p)']_vars

\* A goroutine has gone round the triage loop, counting the same entry
\* again, as often as the model follows it.
C16_Spinning ==
    \E p \in Procs :
        /\ Trapped(p)
        /\ pc[p] = "sort"
        /\ disp[p][cur[p]].TotalClientsWithResults = MaxCounter

\* C16: every Update ends, whether the store's operations succeed or fail:
\* a goroutine is never inside the triage loop of a hunt in a state from
\* which no sequence of passes leaves the loop.  Such a state is one where
\* the backlog holds an entry the store refuses to delete (C16_NoWayOut).
C16_TriageLoopEnds == \A p \in Procs : ~Trapped(p)

\* C17: within one Update and for one hunt the scheduler step is over before
\* the first triage step and is not entered again after it, and no triage
\* step of that Update files a client which its scheduler step has put into
\* running.
C17_Step ==
    \A p \in Procs :
        /\ pc'[p] \in TriagePcs /\ pc[p] \notin TriagePcs => pc[p] \in {"update", "unpend"}
        /\ pc[p] \in TriagePcs => pc'[p] \in TriagePcs \cup {"persist"}
        /\ Turn(p, "sort") => TurnUrn(p) \notin promoted[p]

C17_NotTriagedInCycle == [][C17_Step]_vars


\* ------------------------------------------------------------ C18
\* Every outcome of the delegate's handler: each state, with or without an
\* error.
AllOutcomes == FlowStates \X Booleans

\* The client whose flow handles messages.
MessageClients == {c \in Clients : c <= 1}

\* The hunt flow of one client under every outcome of its delegate, again
\* and again, the store never failing: the hunt is created running (more
\* than once, under the same id), the client is enqueued and launched by
\* the refresh cycles, which also triage what the flow wrote, and the flow
\* handles messages.
NextMessage ==
    \/ TickInterval
    \/ \E c \in MessageClients : ForemanEnqueue(1, c)
    \/ \E c \in MessageClients, o \in AllOutcomes, total \in Totals :
          ProcessMessage(1, c, o[1], total, o[2], FALSE)
    \/ CreateHunt("a1", 1, "RUNNING", 60)
    \/ CreateWrite("a1", FALSE)
    \/ Cycle("a1", NoFaults, NoFaults, NoFaults, NoFaults)

SpecMessage == Init /\ [][NextMessage]_vars

\* A message handled by the hunt flow of client c: no goroutine moves, the
\* wrapper was running and the flow changed.
Message(h, c) ==
    /\ pc' = pc
    /\ idx' = idx
    /\ response' = response
    /\ flows[h][c].Wrapper = "RUNNING"
    /\ flows'[h][c] # flows[h][c]

\* C18: a message handled by a HuntRunnerFlow writes the HuntInfo of its
\* client to completed, with the delegate's context as Result, and copies
\* that context onto the wrapper, exactly when the delegate's handler
\* returned an error or the delegate is no longer RUNNING; while the
\* delegate runs on without error, the message leaves completed and the
\* wrapper as they were.
C18_Step ==
    \A h \in HuntIds, c \in Clients :
        Message(h, c) =>
            LET fl == flows'[h][c] IN
            IF fl.delegate_err \/ fl.State # "RUNNING"
            THEN /\ \E info \in queues'[h].completed :
                        /\ info.ClientId = c
                        /\ info.Result = FlowContext(fl.State, fl.TotalResults)
                 /\ fl.Wrapper = fl.State
            ELSE /\ queues'[h].completed = queues[h].completed
                 /\ fl.Wrapper = flows[h][c].Wrapper

C18_CompletedWrite == [][C18_Step]_vars

\* A delegate failed while still running, and the record of its client in
\* completed carries its running context.
C18_Witness ==
    \E c \in Clients :
        /\ flows[1][c].delegate_err
        /\ flows[1][c].State = "RUNNING"
        /\ \E info \in queues[1].completed :
              info.ClientId = c /\ info.Result.State = "RUNNING"

\* C19: when the deletion of a pulled entry from its source queue fails, in
\* a scheduler step (pending) or in a triage step (completed), the removal
\* goes on to the other entries of the batch, which are deleted all the
\* same, and the step returns the deletion error to Update.
C19_Removal(p, at, queue, next) ==
    Turn(p, at) =>
        /\ Proceeds(p, next)
        /\ IF TurnUrn(p) \in fault'.del
           THEN err'[p] = "delete"
           ELSE /\ TurnUrn(p) \notin QKeys(queues'[TurnHunt(p)][queue])
                /\ err[p] = "delete" => err'[p] = "delete"

C19_Schedule(p) == C19_Removal(p, "unpend", "pending", "triage")

C19_Triage(p) == C19_Removal(p, "uncomplete", "completed", "triage")

C19_Step == \A p \in Procs : C19_Schedule(p) /\ C19_Triage(p)

C19_DeleteErrorReturned == [][C19_Step]_vars

\* C20: a triage step in which the write that files a listed entry into its
\* destination queue fails returns an error to Update, wherever the entry
\* stands in the batch and whatever happens to the entries after it: the
\* failed write sets the step's error, and no later turn of the step
\* clears it.
C20_Step ==
    \A p \in Procs :
        /\ Turn(p, "sort") /\ fault'.write # {} => err'[p] = "write"
        /\ (Turn(p, "sort") \/ Turn(p, "uncomplete")) /\ err[p] = "write" =>
              err'[p] # "nil"

C20_WriteErrorReturned == [][C20_Step]_vars

\* ------------------------------------------------------------ C21
\* Two running hunts under failures of every kind: one API goroutine
\* creates the hunts, each creation ending in a Refresh; the foreman
\* enqueues a client for both, its flows end; listing, loading, reading,
\* writing, deleting and persisting may fail in any step of the cycle.
NextIsolate ==
    \/ TickInterval
    \/ \E h \in HuntIds : ForemanEnqueue(h, 1)
    \/ \E h \in HuntIds : ProcessMessage(h, 1, "TERMINATED", MaxResults, FALSE, FALSE)
    \/ \E id \in HuntIds : CreateHunt("a1", id, "RUNNING", 60)
    \/ CreateWrite("a1", FALSE)
    \/ Cycle("a1", BuildFaults, ScheduleFaults, TriageFaults, PersistFaults)

SpecIsolate == Init /\ [][NextIsolate]_vars

\* The ids of the running hunts in a set or sequence of hunt objects.
RunningIn(hs) == {h.HuntId : h \in {x \in hs : x.State = "RUNNING"}}

\* The step is the build of p's cycle, the listing of the hunts succeeding.
BuildStep(p) == pc[p] = "build" /\ Stepped(p) /\ ~fault'.list

\* The build loads every running hunt but the one whose load failed.
C21_Loaded(p) ==
    BuildStep(p) =>
        Cardinality(RunningIn(store) \ RunningIn(SeqToSet(disp'[p]))) <= 1

\* Update goes through every loaded hunt whatever fails: a running hunt is
\* scheduled, then triaged, then persisted, and the loop goes on to the
\* next hunt.
C21_Processed(p) ==
    /\ pc[p] = "update" /\ Stepped(p) =>
          IF disp[p][cur[p]].State = "RUNNING" THEN pc'[p] \in {"read", "triage"}
          ELSE cur'[p] = cur[p] + 1
    /\ pc[p] \in UpdatePcs \ {"update", "persist"} /\ Stepped(p) =>
          pc'[p] \in UpdatePcs \ {"update"} /\ cur'[p] = cur[p]
    /\ pc'[p] = "persist" /\ pc[p] # "persist" => pc[p] = "triage"
    /\ pc[p] = "persist" /\ Stepped(p) =>
          /\ cur'[p] = cur[p] + 1
          /\ cur'[p] <= Len(disp[p]) => pc'[p] = "update"

\* C21: a store failure confined to one hunt (loading it in the build,
\* listing or reading its queues, persisting its counters) does not abort
\* the refresh cycle: every other running hunt is loaded, scheduled and
\* triaged in that cycle.
C21_Step == \A p \in Procs : C21_Loaded(p) /\ C21_Processed(p)

C21_FailureIsolated == [][C21_Step]_vars

\* ------------------------------------------------------------ C22
\* Every trigger of Update side by side, no failure: a1 reads with
\* ListHunts, the first read building the dispatcher inside
\* GetHuntDispatcher and starting the background goroutine; a2 creates the
\* hunt, the creation ending in a Refresh; the foreman enqueues clients and
\* the flows end with results.
NextExclusive ==
    \/ TickInterval
    \/ \E c \in Clients : ForemanEnqueue(1, c)
    \/ \E c \in Clients : ProcessMessage(1, c, "TERMINATED", MaxResults, FALSE, FALSE)
    \/ ListHunts("a1")
    \/ FirstSet("a1")
    \/ CreateHunt("a2", 1, "RUNNING", 60)
    \/ CreateWrite("a2", FALSE)
    \/ BackgroundWake
    \/ \E p \in Procs : Cycle(p, NoFaults, NoFaults, NoFaults, NoFaults)

SpecExclusive == Init /\ [][NextExclusive]_vars

\* Whether p is inside Update.
Updating(p) == pc[p] \in UpdatePcs

\* C22: at most one goroutine is inside Update at any time, whichever
\* trigger started it (the background refresh, the Refresh of CreateHunt
\* or ModifyHunt, the first build of GetHuntDispatcher), and no client of a
\* hunt has its flow launched twice.
C22_OneUpdate ==
    /\ Cardinality({p \in Procs : Updating(p)}) <= 1
    /\ \A h \in HuntIds, c \in Clients : flows[h][c].launches <= 1
=============================================================================
